---- MODULE Spec2Model ----
(***************************************************************************)
(* Model of packages/formatter-html/src/result.ts: the aggregation of      *)
(* problems into AnalysisResult -> CategoryResult -> HintResult.           *)
(*                                                                         *)
(* Objects live in two heaps (reference -> object), so two references are  *)
(* the same instance exactly when they are equal.  The heaps hold the      *)
(* objects the AnalysisResult can still reach: what removeCategory makes   *)
(* unreachable is collected, as the JavaScript runtime does.  Names are    *)
(* sequences of characters, so that String.prototype.toLowerCase is a real *)
(* conversion; so are the scan time string and the third party link.       *)
(***************************************************************************)
EXTENDS Integers, Sequences, FiniteSets, TLC

\* ------------------------------------------------------------------ bounds
\* problems held by the hints on the heap
MaxProblems == 2
\* CategoryResult objects on the heap
MaxCategories == 2
\* HintResult objects on the heap
MaxHints == 2

\* hours of the longest scan time handed to the AnalysisResult constructor
MaxScanHours == 100

\* ------------------------------------------------------------------ values
\* `undefined`: what a lookup returns when nothing is found
NoRef == 0

\* The members of the Severity enum; Severity[i] is the member's name, as the
\* TypeScript reverse mapping Severity[problem.severity] gives it.  The enum is
\* declared in @hint/utils-types; its members are those the specification
\* lists for Problem.severity.
Severity == <<"off", "default", "warning", "error">>

\* Severity.off, Severity.default, Severity.warning, Severity.error
SeverityOf(member) == CHOOSE i \in DOMAIN Severity : Severity[i] = member

\* Category names the callers use (letter-case variants of two categories)
CategoryNames == { <<"s">>, <<"S">>, <<"p">> }

\* Hint names the callers use (letter-case variants of two hints)
HintNames == { <<"x">>, <<"X">>, <<"y">> }

\* Status strings handed to CategoryResult.addHint
HintStatuses == { "pass", "error" }

\* The Problem records reported to AnalysisResult.addProblem: every category
\* name and severity, one hint name
Problems == [hintId : { <<"x">> }, category : CategoryNames, severity : DOMAIN Severity]

\* The Problem records reported to a CategoryResult directly: every hint
\* name and severity
CategoryProblems == [hintId : HintNames, category : { <<"s">> }, severity : DOMAIN Severity]

\* The target of the analysis the callers pass
Target == <<"t">>

\* Target URLs handed to the HintResult constructor
Urls == { Target, <<"t", "/", "u">>, <<>> }

\* Hint names handed to the HintResult constructor: with and without a base
\* name before a '/'
ConstructedHintNames ==
    HintNames \cup { <<"x", "/", "y">>, <<"y", "/", "x">>, <<"X", "/", "y">> }

\* Scan times in milliseconds handed to the AnalysisResult constructor
ScanTimes ==
    { ((hours * 60 + minutes) * 60 + seconds) * 1000 + milliseconds :
        hours \in 0..MaxScanHours, minutes \in {0, 1, 2, 9, 10, 59},
        seconds \in {0, 5, 9, 10, 59}, milliseconds \in {0, 999} }

\* The arguments of the AnalysisResult constructor: only target
FormatterDefaults == [target |-> Target, scanTime |-> 0, isScanner |-> FALSE]

\* thirdPartyServices as loaded from configs/third-party-service-config.json:
\* base name -> {logo: {name, url, alt}, link}; one service, whose link has
\* the %URL% placeholder and whose logo url is root-relative
ThirdPartyServiceConfig ==
    [baseName \in { <<"x">> } |->
        [logo |-> [name |-> <<"x">>, url |-> <<"/", "x">>, alt |-> <<"x">>],
         link |-> <<"?", "%", "U", "R", "L", "%", "&">>]]

\* hintsWithoutDocs
hintsWithoutDocs == { <<"o", "p", "t", "i", "m", "i", "z", "e", "-", "i", "m", "a", "g", "e">> }

\* The regular expression /%URL%/: the text it matches
URLPattern == <<"%", "U", "R", "L", "%">>

\* name.split('/')[0]: the text before the first '/'
BaseName(name) ==
    IF \E i \in 1..Len(name) : name[i] = "/"
    THEN SubSeq(name, 1, (CHOOSE i \in 1..Len(name) :
                            name[i] = "/" /\ \A j \in 1..(i - 1) : name[j] # "/") - 1)
    ELSE name

\* String.prototype.substr(1)
Substr1(string) == SubSeq(string, 2, Len(string))

\* String.prototype.replace(pattern, replacement) for a pattern without the
\* g flag: the string with the first match replaced
Replace(string, pattern, replacement) ==
    LET matches == { i \in 1..(Len(string) - Len(pattern) + 1) :
                       SubSeq(string, i, i + Len(pattern) - 1) = pattern }
        first == CHOOSE i \in matches : \A j \in matches : i <= j
    IN  IF matches = {}
        THEN string
        ELSE SubSeq(string, 1, first - 1) \o replacement
                 \o SubSeq(string, first + Len(pattern), Len(string))

\* The decimal digits
DigitChars == <<"0", "1", "2", "3", "4", "5", "6", "7", "8", "9">>

\* The template literal `${number}` of a non-negative integer
RECURSIVE NumberToString(_)
NumberToString(number) ==
    IF number < 10
    THEN <<DigitChars[number + 1]>>
    ELSE Append(NumberToString(number \div 10), DigitChars[(number % 10) + 1])

\* String.prototype.toLowerCase on one character
LowerCaseChar(c) ==
    CASE c = "S" -> "s"
      [] c = "P" -> "p"
      [] c = "X" -> "x"
      [] c = "Y" -> "y"
      [] OTHER -> c

\* toLowerCase, had the name been compared as written
toLowerCase_AsWritten(name) == name

\* String.prototype.toLowerCase
toLowerCase(name) == [i \in 1..Len(name) |-> LowerCaseChar(name[i])]

\* Map.prototype.get: the value stored under key, or undefined
MapGet(map, key) == IF key \in DOMAIN map THEN map[key] ELSE NoRef

\* Map.prototype.set
MapSet(map, key, value) ==
    [k \in (DOMAIN map) \cup {key} |-> IF k = key THEN value ELSE map[k]]

\* MapDelete, had the entry been left in the map
MapDelete_Kept(map, key) == map

\* Map.prototype.delete
MapDelete(map, key) == [k \in (DOMAIN map) \ {key} |-> map[k]]

\* new Map()
EmptyMap == [k \in {} |-> NoRef]

\* The values of a list or of a map
Range(f) == { f[k] : k \in DOMAIN f }

\* The reference a newly constructed object gets: the first one not in use
Alloc(heap) ==
    CHOOSE n \in 1..(Cardinality(DOMAIN heap) + 1) :
        n \notin DOMAIN heap /\ \A m \in 1..(n - 1) : m \in DOMAIN heap

\* ------------------------------------------------------------------ state
VARIABLES
    hintsCount,   \* AnalysisResult.hintsCount
    categories,   \* AnalysisResult.categories: sequence of CategoryResult references
    cache,        \* AnalysisResult.cache: lower-cased name -> CategoryResult reference
    catHeap,      \* the CategoryResult objects: reference -> object
    hintHeap,     \* the HintResult objects: reference -> object
    episode,      \* history: the run of addProblem calls into a freshly created category
    scanTime,     \* AnalysisResult.scanTime: the formatted string, <<>> before construction
    url,          \* AnalysisResult.url
    isScanner,    \* AnalysisResult.isScanner
    thirdPartyServices,  \* the module's thirdPartyServices table
    args          \* the arguments of the constructor that built, or will build, the object

\* What only a constructor writes
built == <<scanTime, url, isScanner, thirdPartyServices, args>>

vars == <<hintsCount, categories, cache, catHeap, hintHeap, episode, built>>

\* ------------------------------------------------------------------ HintResult
\* new HintResult(name, status, url, isScanner)
\* thirdPartyInfo is <<>> for null and <<info>> otherwise.  cloneDeep gives
\* the hint a copy of the table's entry, so the assignment to logo.url changes
\* the copy and not thirdPartyServices; link.replace(...) builds a string that
\* the statement does not assign.
NewHintResult(name, status, targetUrl, scanner) ==
    LET baseName == BaseName(name)
        cloned == thirdPartyServices[baseName]
        replaced == Replace(cloned.link, URLPattern, targetUrl)
        thirdPartyInfo ==
            IF baseName \in DOMAIN thirdPartyServices
            THEN <<IF ~scanner THEN [cloned EXCEPT !.logo.url = Substr1(@)] ELSE cloned>>
            ELSE <<>>
    IN  [name |-> name, status |-> status, count |-> 0, problems |-> <<>>,
         thirdPartyInfo |-> thirdPartyInfo, hasDoc |-> name \notin hintsWithoutDocs]

\* HintResult.addProblem, had it put the problem first (unshift)
HintResult_addProblem_First(hint, problem) ==
    [hint EXCEPT !.problems = <<problem>> \o @, !.count = @ + 1]

\* HintResult.addProblem
HintResult_addProblem(hint, problem) ==
    [hint EXCEPT !.problems = Append(@, problem), !.count = @ + 1]

\* ------------------------------------------------------------------ CategoryResult
\* new CategoryResult(name, url, isScanner, language)
NewCategoryResult(name, targetUrl, scanner) ==
    [name |-> name, hintsCount |-> 0, passed |-> <<>>, hints |-> <<>>, cache |-> EmptyMap,
     url |-> targetUrl, isScanner |-> scanner]

\* Array.prototype.find over a list of references: the first reference whose
\* object's lower-cased name is lowerCaseName, or undefined
FindByName(refs, heap, lowerCaseName) ==
    LET hit(i) == toLowerCase(heap[refs[i]].name) = lowerCaseName
    IN  IF \E i \in 1..Len(refs) : hit(i)
        THEN refs[CHOOSE i \in 1..Len(refs) : hit(i) /\ \A j \in 1..(i - 1) : ~hit(j)]
        ELSE NoRef

\* CategoryResult.getHintByName, had it cached the hint under the name as given
CategoryResult_getHintByName_RawKey(cat, hh, name) ==
    LET lowerCaseName == toLowerCase(name)
        cached == MapGet(cat.cache, name)
        found == FindByName(cat.hints, hh, lowerCaseName)
    IN  IF cached # NoRef
        THEN [hint |-> cached, cache |-> cat.cache]
        ELSE IF found # NoRef
             THEN [hint |-> found, cache |-> MapSet(cat.cache, name, found)]
             ELSE [hint |-> NoRef, cache |-> cat.cache]

\* CategoryResult.getHintByName, had it searched passed after hints
CategoryResult_getHintByName_AlsoPassed(cat, hh, name) ==
    LET lowerCaseName == toLowerCase(name)
        cached == MapGet(cat.cache, lowerCaseName)
        found == FindByName(cat.hints \o cat.passed, hh, lowerCaseName)
    IN  IF cached # NoRef
        THEN [hint |-> cached, cache |-> cat.cache]
        ELSE IF found # NoRef
             THEN [hint |-> found, cache |-> MapSet(cat.cache, lowerCaseName, found)]
             ELSE [hint |-> NoRef, cache |-> cat.cache]

\* CategoryResult.getHintByName on category object cat with hint heap hh:
\* the hint returned and the category's cache afterwards
CategoryResult_getHintByName(cat, hh, name) ==
    LET lowerCaseName == toLowerCase(name)
        cached == MapGet(cat.cache, lowerCaseName)
        found == FindByName(cat.hints, hh, lowerCaseName)
    IN  IF cached # NoRef
        THEN [hint |-> cached, cache |-> cat.cache]
        ELSE IF found # NoRef
             THEN [hint |-> found, cache |-> MapSet(cat.cache, lowerCaseName, found)]
             ELSE [hint |-> NoRef, cache |-> cat.cache]

\* CategoryResult.addHint, had it filed every new hint into hints
CategoryResult_addHint_AllHints(cat, hh, name, status) ==
    LET got == CategoryResult_getHintByName(cat, hh, name)
        looked == [cat EXCEPT !.cache = got.cache]
        new == Alloc(hh)
    IN  IF got.hint # NoRef
        THEN [hint |-> got.hint, cat |-> looked, hh |-> hh]
        ELSE [hint |-> new,
              cat |-> [looked EXCEPT !.hints = Append(@, new)],
              hh |-> MapSet(hh, new, NewHintResult(name, status, cat.url, cat.isScanner))]

\* CategoryResult.addHint: the hint returned, the category and the hint heap afterwards
CategoryResult_addHint(cat, hh, name, status) ==
    LET got == CategoryResult_getHintByName(cat, hh, name)
        looked == [cat EXCEPT !.cache = got.cache]
        new == Alloc(hh)
    IN  IF got.hint # NoRef
        THEN [hint |-> got.hint, cat |-> looked, hh |-> hh]
        ELSE [hint |-> new,
              cat |-> IF status = "pass"
                      THEN [looked EXCEPT !.passed = Append(@, new)]
                      ELSE [looked EXCEPT !.hints = Append(@, new)],
              hh |-> MapSet(hh, new, NewHintResult(name, status, cat.url, cat.isScanner))]

\* CategoryCounts, had the default severity been counted
CategoryCounts_Default(severity) == severity # SeverityOf("off")

\* The category-level counting predicate of CategoryResult.addProblem
CategoryCounts(severity) ==
    severity # SeverityOf("off") /\ severity # SeverityOf("default")

\* CategoryResult.addProblem, had it recorded the problem only when it counts
CategoryResult_addProblem_CountedOnly(cat, hh, problem) ==
    LET hintId == problem.hintId
        got == CategoryResult_getHintByName(cat, hh, hintId)
        looked == [cat EXCEPT !.cache = got.cache]
        new == Alloc(hh)
        hint == IF got.hint # NoRef THEN got.hint ELSE new
        hh1 == IF got.hint # NoRef
               THEN hh
               ELSE MapSet(hh, new, NewHintResult(hintId, Severity[problem.severity], cat.url, cat.isScanner))
        cat1 == IF got.hint # NoRef THEN looked ELSE [looked EXCEPT !.hints = Append(@, new)]
    IN  IF CategoryCounts(problem.severity)
        THEN [cat |-> [cat1 EXCEPT !.hintsCount = @ + 1],
              hh |-> [hh1 EXCEPT ![hint] = HintResult_addProblem(@, problem)]]
        ELSE [cat |-> cat1, hh |-> hh1]

\* CategoryResult.addProblem: the category and the hint heap afterwards
CategoryResult_addProblem(cat, hh, problem) ==
    LET hintId == problem.hintId
        got == CategoryResult_getHintByName(cat, hh, hintId)
        looked == [cat EXCEPT !.cache = got.cache]
        new == Alloc(hh)
        hint == IF got.hint # NoRef THEN got.hint ELSE new
        hh1 == IF got.hint # NoRef
               THEN hh
               ELSE MapSet(hh, new, NewHintResult(hintId, Severity[problem.severity], cat.url, cat.isScanner))
        cat1 == IF got.hint # NoRef THEN looked ELSE [looked EXCEPT !.hints = Append(@, new)]
        cat2 == IF CategoryCounts(problem.severity)
                THEN [cat1 EXCEPT !.hintsCount = @ + 1]
                ELSE cat1
    IN  [cat |-> cat2, hh |-> [hh1 EXCEPT ![hint] = HintResult_addProblem(@, problem)]]

\* ------------------------------------------------------------------ AnalysisResult
\* AnalysisResult.getCategoryByName, had find compared cat.name as stored
AnalysisResult_getCategoryByName_Stored(cats, ch, ca, name) ==
    LET lowerCaseName == toLowerCase(name)
        cached == MapGet(ca, lowerCaseName)
        hits == { i \in 1..Len(cats) : ch[cats[i]].name = lowerCaseName }
        found == IF hits = {} THEN NoRef ELSE cats[CHOOSE i \in hits : \A j \in hits : i <= j]
    IN  IF cached # NoRef
        THEN [category |-> cached, cache |-> ca]
        ELSE IF found # NoRef
             THEN [category |-> found, cache |-> MapSet(ca, lowerCaseName, found)]
             ELSE [category |-> NoRef, cache |-> ca]

\* AnalysisResult.getCategoryByName: the category returned and the cache afterwards
AnalysisResult_getCategoryByName(cats, ch, ca, name) ==
    LET lowerCaseName == toLowerCase(name)
        cached == MapGet(ca, lowerCaseName)
        found == FindByName(cats, ch, lowerCaseName)
    IN  IF cached # NoRef
        THEN [category |-> cached, cache |-> ca]
        ELSE IF found # NoRef
             THEN [category |-> found, cache |-> MapSet(ca, lowerCaseName, found)]
             ELSE [category |-> NoRef, cache |-> ca]

\* pad, had it returned the string as it is
pad_Unpadded(timeString) == timeString

\* AnalysisResult.pad: a 0 before a string of one character
pad(timeString) ==
    IF timeString # <<>> /\ Len(timeString) = 1 THEN <<"0">> \o timeString ELSE timeString

\* AnalysisResult.parseScanTime.  scanTime is a whole number of milliseconds,
\* so floor((scanTime / 1000) % 60) is the whole seconds of scanTime % 60000
\* and floor((scanTime / 1000 / 60) % 60) the whole minutes of scanTime % 3600000.
parseScanTime(milliseconds) ==
    LET seconds == (milliseconds % (60 * 1000)) \div 1000
        minutes == (milliseconds % (60 * 60 * 1000)) \div (60 * 1000)
        hours == milliseconds \div (3600 * 1000)
        minutesDisplay == pad(NumberToString(minutes))
        secondsDisplay == pad(NumberToString(seconds))
        time == minutesDisplay \o <<":">> \o secondsDisplay
    IN  IF hours > 0
        THEN pad(NumberToString(hours)) \o <<":">> \o time
        ELSE time

\* RootCounts, had the root counted errors only
RootCounts_OnlyError(severity) == severity = SeverityOf("error")

\* The root-level counting predicate of AnalysisResult.addProblem
RootCounts(severity) ==
    severity = SeverityOf("error") \/ severity = SeverityOf("warning")

\* Array.prototype.indexOf, 0-based, -1 when absent
IndexOf(seq, x) ==
    IF \E i \in 1..Len(seq) : seq[i] = x
    THEN (CHOOSE i \in 1..Len(seq) : seq[i] = x /\ \A j \in 1..(i - 1) : seq[j] # x) - 1
    ELSE -1

\* Array.prototype.splice(index, 1): a negative index counts from the end
Splice1(seq, index) ==
    LET at == IF index < 0 THEN Len(seq) + index + 1 ELSE index + 1
    IN  IF at < 1 \/ at > Len(seq)
        THEN seq
        ELSE [i \in 1..(Len(seq) - 1) |-> IF i < at THEN seq[i] ELSE seq[i + 1]]

\* The objects removeCategory leaves reachable from the AnalysisResult:
\* the categories in the list or the cache, and the hints those hold
Collect(cats, ca, ch, hh) ==
    LET liveCats == (Range(cats) \cup Range(ca)) \cap DOMAIN ch
        liveHints == UNION { Range(ch[r].passed) \cup Range(ch[r].hints) \cup Range(ch[r].cache) :
                             r \in liveCats } \cap DOMAIN hh
    IN  [ch |-> [r \in liveCats |-> ch[r]], hh |-> [h \in liveHints |-> hh[h]]]

\* Problems held by the hints on the heap
RECURSIVE SumCounts(_)
SumCounts(hh) ==
    IF DOMAIN hh = {}
    THEN 0
    ELSE LET h == CHOOSE r \in DOMAIN hh : TRUE
         IN  hh[h].count + SumCounts([r \in DOMAIN hh \ {h} |-> hh[r]])

\* ------------------------------------------------------------------ history
\* Two names that differ in letter case only (stated without toLowerCase)
UpperCaseChar(c) ==
    CASE c = "s" -> "S"
      [] c = "p" -> "P"
      [] c = "x" -> "X"
      [] c = "y" -> "Y"
      [] OTHER -> c

SameName(a, b) ==
    /\ Len(a) = Len(b)
    /\ \A i \in 1..Len(a) : UpperCaseChar(a[i]) = UpperCaseChar(b[i])

\* The references held by AnalysisResult.categories
Live == Range(categories)

\* The categories in AnalysisResult.categories named name, ignoring letter case
Named(name) == { r \in Live : SameName(catHeap[r].name, name) }

\* episode records the calls "addProblem into a category that did not exist,
\* more addProblem into that category, removeCategory of it": base is the root
\* hintsCount before the first of them, peak the root hintsCount before the
\* removal; again tells that the category had been removed by the call before
\* the first of them
NoEpisode == [phase |-> "none", category |-> <<>>, base |-> 0, peak |-> 0, again |-> FALSE]

\* ------------------------------------------------------------------ Init
\* The state after new AnalysisResult(target, {})
Init ==
    /\ hintsCount = 0
    /\ categories = <<>>
    /\ cache = EmptyMap
    /\ catHeap = EmptyMap
    /\ hintHeap = EmptyMap
    /\ episode = NoEpisode
    /\ args = FormatterDefaults
    /\ scanTime = parseScanTime(args.scanTime)
    /\ url = args.target
    /\ isScanner = args.isScanner
    /\ thirdPartyServices = ThirdPartyServiceConfig

\* ------------------------------------------------------------------ actions
\* AnalysisResult.getCategoryByName(name)
GetCategoryByName(name) ==
    LET got == AnalysisResult_getCategoryByName(categories, catHeap, cache, name)
    IN  /\ cache' = got.cache
        /\ episode' = NoEpisode
        /\ UNCHANGED <<hintsCount, categories, catHeap, hintHeap, built>>

\* AnalysisResult.addProblem(problem)
AddProblem(problem) ==
    LET got == AnalysisResult_getCategoryByName(categories, catHeap, cache, problem.category)
        new == Alloc(catHeap)
        category == IF got.category # NoRef THEN got.category ELSE new
        ch1 == IF got.category # NoRef
               THEN catHeap
               ELSE MapSet(catHeap, new, NewCategoryResult(problem.category, url, isScanner))
        added == CategoryResult_addProblem(ch1[category], hintHeap, problem)
    IN  /\ SumCounts(hintHeap) < MaxProblems
        /\ Cardinality(DOMAIN ch1) <= MaxCategories
        /\ Cardinality(DOMAIN added.hh) <= MaxHints
        /\ cache' = got.cache
        /\ categories' = IF got.category # NoRef THEN categories ELSE Append(categories, new)
        /\ hintsCount' = IF RootCounts(problem.severity) THEN hintsCount + 1 ELSE hintsCount
        /\ catHeap' = [ch1 EXCEPT ![category] = added.cat]
        /\ hintHeap' = added.hh
        /\ episode' = IF Named(problem.category) = {}
                      THEN [phase |-> "adding", category |-> problem.category,
                            base |-> hintsCount, peak |-> 0,
                            again |-> /\ episode.phase = "removed"
                                      /\ SameName(episode.category, problem.category)]
                      ELSE IF episode.phase = "adding" /\ SameName(episode.category, problem.category)
                           THEN episode
                           ELSE NoEpisode
        /\ UNCHANGED built

\* AnalysisResult.addCategory(categoryName)
AddCategory(categoryName) ==
    LET got == AnalysisResult_getCategoryByName(categories, catHeap, cache, categoryName)
        new == Alloc(catHeap)
    IN  /\ cache' = got.cache
        /\ IF got.category # NoRef
           THEN UNCHANGED <<categories, catHeap>>
           ELSE /\ Cardinality(DOMAIN catHeap) < MaxCategories
                /\ catHeap' = MapSet(catHeap, new, NewCategoryResult(categoryName, url, isScanner))
                /\ categories' = Append(categories, new)
        /\ episode' = NoEpisode
        /\ UNCHANGED <<hintsCount, hintHeap, built>>

\* AnalysisResult.removeCategory, had it spliced without testing the lookup:
\* indexOf(undefined) is -1 and splice(-1, 1) removes the last category
RemoveCategory_Unguarded(categoryName) ==
    LET name == toLowerCase(categoryName)
        got == AnalysisResult_getCategoryByName(categories, catHeap, cache, name)
        category == got.category
        kept == Collect(categories', cache', catHeap, hintHeap)
    IN  /\ hintsCount' = IF category # NoRef
                         THEN hintsCount - catHeap[category].hintsCount
                         ELSE hintsCount
        /\ categories' = Splice1(categories, IndexOf(categories, category))
        /\ cache' = MapDelete(got.cache, name)
        /\ catHeap' = kept.ch
        /\ hintHeap' = kept.hh
        /\ episode' = NoEpisode
        /\ UNCHANGED built

\* AnalysisResult.removeCategory(categoryName)
RemoveCategory(categoryName) ==
    LET name == toLowerCase(categoryName)
        got == AnalysisResult_getCategoryByName(categories, catHeap, cache, name)
        category == got.category
        index == IndexOf(categories, category)
        kept == Collect(categories', cache', catHeap, hintHeap)
    IN  /\ IF category # NoRef
           THEN /\ hintsCount' = hintsCount - catHeap[category].hintsCount
                /\ categories' = Splice1(categories, index)
                /\ cache' = MapDelete(got.cache, name)
                /\ catHeap' = kept.ch
                /\ hintHeap' = kept.hh
           ELSE /\ cache' = got.cache
                /\ UNCHANGED <<hintsCount, categories, catHeap, hintHeap>>
        /\ episode' = IF episode.phase = "adding" /\ SameName(episode.category, categoryName)
                      THEN [episode EXCEPT !.phase = "removed", !.peak = hintsCount]
                      ELSE NoEpisode
        /\ UNCHANGED built

\* CategoryResult.getHintByName(name) on the live category c
GetHintByName(c, name) ==
    LET got == CategoryResult_getHintByName(catHeap[c], hintHeap, name)
    IN  /\ catHeap' = [catHeap EXCEPT ![c].cache = got.cache]
        /\ episode' = NoEpisode
        /\ UNCHANGED <<hintsCount, categories, cache, hintHeap, built>>

\* CategoryResult.addHint(name, status) on the live category c
AddHint(c, name, status) ==
    LET added == CategoryResult_addHint(catHeap[c], hintHeap, name, status)
    IN  /\ Cardinality(DOMAIN added.hh) <= MaxHints
        /\ catHeap' = [catHeap EXCEPT ![c] = added.cat]
        /\ hintHeap' = added.hh
        /\ episode' = NoEpisode
        /\ UNCHANGED <<hintsCount, categories, cache, built>>

\* CategoryResult.addProblem(problem) called directly on the category c
CategoryAddProblem(c, problem) ==
    LET added == CategoryResult_addProblem(catHeap[c], hintHeap, problem)
    IN  /\ SumCounts(hintHeap) < MaxProblems
        /\ Cardinality(DOMAIN added.hh) <= MaxHints
        /\ catHeap' = [catHeap EXCEPT ![c] = added.cat]
        /\ hintHeap' = added.hh
        /\ episode' = NoEpisode
        /\ UNCHANGED <<hintsCount, categories, cache, built>>

\* ------------------------------------------------------------------ AnalysisResult under its callers
Next ==
    \/ \E name \in CategoryNames : GetCategoryByName(name)
    \/ \E problem \in Problems : AddProblem(problem)
    \/ \E name \in CategoryNames : AddCategory(name)
    \/ \E name \in CategoryNames : RemoveCategory(name)

Spec == Init /\ [][Next]_vars

\* ------------------------------------------------------------------ one CategoryResult under its callers
\* The CategoryResult under test: the first object of the category heap
TheCategory == 1

\* The state after new CategoryResult(name, url, isScanner)
InitCategory ==
    /\ hintsCount = 0
    /\ categories = <<>>
    /\ cache = EmptyMap
    /\ catHeap = MapSet(EmptyMap, TheCategory, NewCategoryResult(<<"s">>, Target, FALSE))
    /\ hintHeap = EmptyMap
    /\ episode = NoEpisode
    /\ args = FormatterDefaults
    /\ scanTime = parseScanTime(args.scanTime)
    /\ url = args.target
    /\ isScanner = args.isScanner
    /\ thirdPartyServices = ThirdPartyServiceConfig

NextCategory ==
    \/ \E name \in HintNames : GetHintByName(TheCategory, name)
    \/ \E name \in HintNames, status \in HintStatuses : AddHint(TheCategory, name, status)
    \/ \E problem \in CategoryProblems : CategoryAddProblem(TheCategory, problem)

SpecCategory == InitCategory /\ [][NextCategory]_vars

\* ------------------------------------------------------------------ the AnalysisResult constructor
\* Before new AnalysisResult(target, options): the arguments are chosen
InitConstruct ==
    /\ args \in [target : {Target}, scanTime : ScanTimes, isScanner : BOOLEAN]
    /\ hintsCount = 0
    /\ categories = <<>>
    /\ cache = EmptyMap
    /\ catHeap = EmptyMap
    /\ hintHeap = EmptyMap
    /\ episode = NoEpisode
    /\ scanTime = <<>>
    /\ url = <<>>
    /\ isScanner = FALSE
    /\ thirdPartyServices = ThirdPartyServiceConfig

\* new AnalysisResult(target, options); options.scanTime || 0 is
\* options.scanTime for a number
Construct ==
    /\ scanTime = <<>>
    /\ url' = args.target
    /\ hintsCount' = 0
    /\ scanTime' = parseScanTime(args.scanTime)
    /\ isScanner' = args.isScanner
    /\ categories' = <<>>
    /\ UNCHANGED <<cache, catHeap, hintHeap, episode, thirdPartyServices, args>>

NextConstruct == Construct

SpecConstruct == InitConstruct /\ [][NextConstruct]_vars

\* ------------------------------------------------------------------ the HintResult constructor
\* Before new HintResult(name, status, url, isScanner): the arguments are chosen
InitHint ==
    /\ args \in [name : ConstructedHintNames, status : HintStatuses,
                 url : Urls, isScanner : BOOLEAN]
    /\ hintsCount = 0
    /\ categories = <<>>
    /\ cache = EmptyMap
    /\ catHeap = EmptyMap
    /\ hintHeap = EmptyMap
    /\ episode = NoEpisode
    /\ scanTime = parseScanTime(FormatterDefaults.scanTime)
    /\ url = FormatterDefaults.target
    /\ isScanner = FormatterDefaults.isScanner
    /\ thirdPartyServices = ThirdPartyServiceConfig

\* new HintResult(name, status, url, isScanner)
ConstructHint ==
    /\ hintHeap = EmptyMap
    /\ hintHeap' = MapSet(hintHeap, Alloc(hintHeap),
                          NewHintResult(args.name, args.status, args.url, args.isScanner))
    /\ UNCHANGED <<hintsCount, categories, cache, catHeap, episode, built>>

NextHint == ConstructHint

SpecHint == InitHint /\ [][NextHint]_vars

\* ------------------------------------------------------------------ properties
\* The sum of hintsCount over a list of CategoryResult references
RECURSIVE SumHintsCount(_)
SumHintsCount(refs) ==
    IF refs = <<>> THEN 0 ELSE catHeap[Head(refs)].hintsCount + SumHintsCount(Tail(refs))

\* C1: in every reachable state the root hintsCount equals the sum of
\* hintsCount over the CategoryResults currently in categories.
C1_CountConsistency == hintsCount = SumHintsCount(categories)

\* C1 witness: a category with counted problems has been removed while
\* another category with counted problems stays.
C1_Witness ==
    /\ episode.phase = "removed"
    /\ episode.peak > episode.base
    /\ \E r \in Live : catHeap[r].hintsCount >= 1

\* C2: after addProblem into a category C that did not exist, more addProblem
\* into C and then removeCategory(C) in any letter case, the root hintsCount
\* is back to its value before the first problem, C is not in categories and
\* getCategoryByName returns undefined for every spelling of C.
C2_RemovalSubtractsOnce ==
    episode.phase = "removed" =>
        /\ hintsCount = episode.base
        /\ Named(episode.category) = {}
        /\ \A name \in CategoryNames :
              SameName(name, episode.category) =>
                  AnalysisResult_getCategoryByName(categories, catHeap, cache, name).category = NoRef

\* C2 witness: the removed category had raised the root hintsCount by two.
C2_Witness == episode.phase = "removed" /\ episode.peak = episode.base + 2

\* The hints a CategoryResult holds, in passed and hints together
HeldHints(c) == Range(catHeap[c].passed) \cup Range(catHeap[c].hints)

\* C3: addHint on a name that a hint of the category already has (ignoring
\* letter case) returns that hint and adds no element to passed or hints,
\* whatever the status of either call.
C3_AddHintIdempotent ==
    [][\A name \in HintNames, status \in HintStatuses :
          AddHint(TheCategory, name, status) =>
              \A h \in HeldHints(TheCategory) :
                  SameName(hintHeap[h].name, name) =>
                      /\ CategoryResult_addHint(catHeap[TheCategory], hintHeap, name, status).hint = h
                      /\ catHeap'[TheCategory].passed = catHeap[TheCategory].passed
                      /\ catHeap'[TheCategory].hints = catHeap[TheCategory].hints]_vars

\* C4: a category holds at most one HintResult per hint name ignoring letter
\* case, counted over passed and hints together.
C4_OneHintPerName ==
    \A c \in DOMAIN catHeap :
        /\ \A h1, h2 \in HeldHints(c) :
              SameName(hintHeap[h1].name, hintHeap[h2].name) => h1 = h2
        /\ Cardinality(HeldHints(c)) = Len(catHeap[c].passed) + Len(catHeap[c].hints)

\* C5: categories holds at most one CategoryResult per name ignoring letter
\* case, and addCategory on a name that exists changes neither categories,
\* nor any category or hint, nor the root hintsCount.
C5_AddCategoryIdempotent ==
    /\ [](\A r1, r2 \in Live : SameName(catHeap[r1].name, catHeap[r2].name) => r1 = r2)
    /\ [](Cardinality(Live) = Len(categories))
    /\ [][\A name \in CategoryNames :
            (AddCategory(name) /\ Named(name) # {}) =>
                UNCHANGED <<categories, catHeap, hintHeap, hintsCount>>]_vars

\* C5 witness: a category created on demand by addProblem under the name "S"
\* has counted problems and has been looked up, so that addCategory("s") finds it.
C5_Witness ==
    \E r \in Live :
        /\ catHeap[r].name = <<"S">>
        /\ catHeap[r].hintsCount >= 1
        /\ MapGet(cache, <<"s">>) = r

\* C6: for a category in categories, getCategoryByName returns that instance
\* for every spelling of its name, with the cache empty or populated.
C6_LookupIgnoresCase ==
    \A r \in Live, name \in CategoryNames :
        SameName(catHeap[r].name, name) =>
            AnalysisResult_getCategoryByName(categories, catHeap, cache, name).category = r

\* C6 witness: the category named "S" is cached by a lookup, next to another
\* category that is not cached.
C6_Witness ==
    \E r \in Live :
        /\ catHeap[r].name = <<"S">>
        /\ MapGet(cache, <<"s">>) = r
        /\ Len(categories) = 2
        /\ <<"p">> \notin DOMAIN cache

\* The problems of hint h that the category-level predicate counts, stated on
\* the severity names
Counted(h) ==
    { i \in 1..Len(hintHeap[h].problems) :
        Severity[hintHeap[h].problems[i].severity] \notin {"off", "default"} }

RECURSIVE SumCounted(_)
SumCounted(refs) ==
    IF refs = <<>> THEN 0 ELSE Cardinality(Counted(Head(refs))) + SumCounted(Tail(refs))

\* C7: a category's hintsCount is the number of problems, over the problems
\* lists of the hints in hints, whose severity is neither off nor default.
C7_CategoryCount ==
    \A c \in DOMAIN catHeap : catHeap[c].hintsCount = SumCounted(catHeap[c].hints)

\* C7 witness: the category holds a counted and an uncounted problem.
C7_Witness ==
    /\ catHeap[TheCategory].hintsCount = 1
    /\ SumCounts(hintHeap) = 2

\* The effect of routing problem to a hint: one hint, named as the problem's
\* hintId, has the problem appended; every other hint is as it was
Routed(problem) ==
    \E h \in DOMAIN hintHeap' :
        /\ SameName(hintHeap'[h].name, problem.hintId)
        /\ hintHeap'[h].problems =
              Append(IF h \in DOMAIN hintHeap THEN hintHeap[h].problems ELSE <<>>, problem)
        /\ \A g \in DOMAIN hintHeap' \ {h} : g \in DOMAIN hintHeap /\ hintHeap'[g] = hintHeap[g]

\* C8: every hint's count is the length of problems; a step keeps each
\* hint's problems as a prefix of what it holds afterwards, and addProblem
\* appends the problem to the one hint it is routed to.
C8_AppendOnly ==
    /\ [](\A h \in DOMAIN hintHeap : hintHeap[h].count = Len(hintHeap[h].problems))
    /\ [][\A h \in DOMAIN hintHeap \cap DOMAIN hintHeap' :
            /\ Len(hintHeap[h].problems) <= Len(hintHeap'[h].problems)
            /\ SubSeq(hintHeap'[h].problems, 1, Len(hintHeap[h].problems)) = hintHeap[h].problems]_vars
    /\ [][\A problem \in CategoryProblems :
            CategoryAddProblem(TheCategory, problem) => Routed(problem)]_vars

\* C8 witness: a hint holds two different problems.
C8_Witness ==
    \E h \in DOMAIN hintHeap :
        /\ hintHeap[h].count = 2
        /\ hintHeap[h].problems[1] # hintHeap[h].problems[2]

\* C9: getHintByName returns a hint filed into passed for every spelling of
\* its name.
C9_PassedHintFound ==
    \A h \in Range(catHeap[TheCategory].passed), name \in HintNames :
        SameName(hintHeap[h].name, name) =>
            CategoryResult_getHintByName(catHeap[TheCategory], hintHeap, name).hint = h

\* C10: removeCategory on a name no category in categories has changes
\* neither categories, nor any category or hint, nor the root hintsCount.
C10_RemoveAbsentNoop ==
    [][\A name \in CategoryNames :
          (RemoveCategory(name) /\ Named(name) = {}) =>
              UNCHANGED <<categories, catHeap, hintHeap, hintsCount, cache>>]_vars

\* C10 witness: a category that raised the root hintsCount has been removed
\* and not created again, and another category with counted problems is
\* last in categories.
C10_Witness ==
    /\ episode.phase = "removed"
    /\ episode.peak > episode.base
    /\ Named(episode.category) = {}
    /\ Len(categories) >= 1
    /\ catHeap[categories[Len(categories)]].hintsCount >= 1

\* C11: the root hintsCount is a non-negative integer in every reachable state.
C11_RootCountNonNegative == hintsCount \in Nat

\* C11 witness: removing a category that had raised the root hintsCount
\* brought it back to zero.
C11_Witness ==
    /\ episode.phase = "removed"
    /\ episode.peak > episode.base
    /\ hintsCount = 0

\* A name without upper-case letters
IsLowerCase(name) ==
    \A i \in 1..Len(name) : \A c \in {"s", "p", "x", "y"} : name[i] # UpperCaseChar(c)

\* C13: every entry of the root cache maps a lower-cased key to a category
\* that is in categories and bears the key's name, so that no lookup returns
\* a removed category.
C13_RootCacheFresh ==
    /\ \A key \in DOMAIN cache :
          /\ IsLowerCase(key)
          /\ cache[key] \in Live
          /\ SameName(catHeap[cache[key]].name, key)
    /\ \A name \in CategoryNames :
          AnalysisResult_getCategoryByName(categories, catHeap, cache, name).category
              \in Live \cup {NoRef}

\* C13 witness: a category was removed, created again by addProblem and
\* then cached by a later lookup; it counts the problems added since.
C13_Witness ==
    /\ episode.phase = "adding"
    /\ episode.again
    /\ \E r \in Named(episode.category) :
          /\ r \in Range(cache)
          /\ catHeap[r].hintsCount = hintsCount - episode.base
          /\ catHeap[r].hintsCount >= 1

\* C14: every hint a category's cache refers to is an element of exactly one
\* of passed and hints, and its key is the lower-cased form of its own name.
C14_CategoryCacheFresh ==
    \A c \in DOMAIN catHeap :
        \A key \in DOMAIN catHeap[c].cache :
            LET h == catHeap[c].cache[key]
            IN  /\ h \in DOMAIN hintHeap
                /\ (h \in Range(catHeap[c].passed)) # (h \in Range(catHeap[c].hints))
                /\ IsLowerCase(key)
                /\ SameName(hintHeap[h].name, key)

\* C14 witness: the cache holds, under a lower-cased key, a hint whose name
\* is stored in upper case, while the category has a passed hint too.
C14_Witness ==
    /\ catHeap[TheCategory].passed # <<>>
    /\ \E key \in DOMAIN catHeap[TheCategory].cache :
          hintHeap[catHeap[TheCategory].cache[key]].name # key

\* C15: every hint in passed has status pass and every hint in hints has
\* another status; addHint on a name a hint already bears changes neither
\* that hint's status nor the list it is in.
C15_PartitionByStatus ==
    /\ [](\A c \in DOMAIN catHeap :
            /\ \A h \in Range(catHeap[c].passed) : hintHeap[h].status = "pass"
            /\ \A h \in Range(catHeap[c].hints) : hintHeap[h].status # "pass")
    /\ [][\A name \in HintNames, status \in HintStatuses :
            AddHint(TheCategory, name, status) =>
                \A h \in HeldHints(TheCategory) :
                    SameName(hintHeap[h].name, name) =>
                        /\ hintHeap'[h].status = hintHeap[h].status
                        /\ (h \in Range(catHeap'[TheCategory].passed))
                               = (h \in Range(catHeap[TheCategory].passed))
                        /\ (h \in Range(catHeap'[TheCategory].hints))
                               = (h \in Range(catHeap[TheCategory].hints))]_vars

\* C15 witness: a pass hint in passed and a hint of another status in
\* hints bear the same name.
C15_Witness ==
    \E h \in Range(catHeap[TheCategory].passed), g \in Range(catHeap[TheCategory].hints) :
        /\ SameName(hintHeap[h].name, hintHeap[g].name)
        /\ hintHeap[g].status = "error"
        /\ hintHeap[g].count = 0

\* C16: CategoryResult.addProblem(p) leaves p as the last problem of a hint
\* in hints named p.hintId ignoring case, with that hint's count grown by 1;
\* when hints had no such hint the hint is new and its status is the name of
\* p.severity; the category's hintsCount grows by 1 exactly when the
\* severity is neither off nor default.
C16_AddProblemRecords ==
    [][\A problem \in CategoryProblems :
          CategoryAddProblem(TheCategory, problem) =>
              LET cat == catHeap[TheCategory]
                  after == catHeap'[TheCategory]
                  prior == { g \in Range(cat.hints) : SameName(hintHeap[g].name, problem.hintId) }
              IN  /\ \E h \in Range(after.hints) :
                        /\ SameName(hintHeap'[h].name, problem.hintId)
                        /\ hintHeap'[h].problems # <<>>
                        /\ hintHeap'[h].problems[Len(hintHeap'[h].problems)] = problem
                        /\ hintHeap'[h].count
                               = (IF h \in DOMAIN hintHeap THEN hintHeap[h].count ELSE 0) + 1
                        /\ IF prior = {}
                           THEN /\ h \notin DOMAIN hintHeap
                                /\ hintHeap'[h].status = Severity[problem.severity]
                           ELSE h \in prior
                  /\ after.hintsCount - cat.hintsCount
                         = (IF Severity[problem.severity] \in {"off", "default"} THEN 0 ELSE 1)]_vars

\* C16 witness: a problem of severity off created its hint, filed into
\* hints with status off, and left the category's hintsCount at zero.
C16_Witness ==
    /\ catHeap[TheCategory].hintsCount = 0
    /\ \E h \in Range(catHeap[TheCategory].hints) :
          /\ hintHeap[h].status = "off"
          /\ hintHeap[h].count = 1

\* C18: every hint in passed has count 0 and no problems, also when a
\* problem's hintId is the name of a pass hint.
C18_PassedStayEmpty ==
    \A c \in DOMAIN catHeap :
        \A h \in Range(catHeap[c].passed) :
            hintHeap[h].count = 0 /\ hintHeap[h].problems = <<>>

\* C18 witness: a problem whose hintId is the name of a pass hint has been
\* recorded, in a hint of hints.
C18_Witness ==
    \E h \in Range(catHeap[TheCategory].passed), g \in Range(catHeap[TheCategory].hints) :
        /\ hintHeap[g].count >= 1
        /\ SameName(hintHeap[h].name, hintHeap[g].problems[1].hintId)

\* The number of problems recorded in category c of category heap ch, over
\* the hints of hint heap hh that it holds
RECURSIVE SumProblems(_, _)
SumProblems(refs, hh) ==
    IF refs = <<>> THEN 0 ELSE Len(hh[Head(refs)].problems) + SumProblems(Tail(refs), hh)

Recorded(ch, hh, c) == SumProblems(ch[c].passed \o ch[c].hints, hh)

\* C17: AnalysisResult.addProblem(p) raises the root hintsCount by 1 exactly
\* when the severity is error or warning, and records p in the category named
\* p.category, created when absent: that category holds one problem more,
\* and every other category keeps its hintsCount, passed and hints.
C17_AddProblemFrame ==
    [][\A problem \in Problems :
          AddProblem(problem) =>
              /\ hintsCount' - hintsCount
                     = (IF Severity[problem.severity] \in {"error", "warning"} THEN 1 ELSE 0)
              /\ \E t \in Range(categories') :
                    /\ SameName(catHeap'[t].name, problem.category)
                    /\ IF Named(problem.category) = {}
                       THEN t \notin Live /\ Recorded(catHeap', hintHeap', t) = 1
                       ELSE /\ t \in Named(problem.category)
                            /\ Recorded(catHeap', hintHeap', t)
                                   = Recorded(catHeap, hintHeap, t) + 1
                    /\ Range(categories') = Live \cup {t}
                    /\ \A c \in Live \ {t} :
                          /\ catHeap'[c].hintsCount = catHeap[c].hintsCount
                          /\ catHeap'[c].passed = catHeap[c].passed
                          /\ catHeap'[c].hints = catHeap[c].hints
                          /\ \A h \in HeldHints(c) : hintHeap'[h] = hintHeap[h]]_vars

\* C17 witness: two categories hold a problem each, and only one of the two
\* problems was counted by the root.
C17_Witness ==
    /\ hintsCount = 1
    /\ \E c, d \in Live :
          /\ c # d
          /\ Recorded(catHeap, hintHeap, c) = 1
          /\ Recorded(catHeap, hintHeap, d) = 1

\* C19: no step lowers the hintsCount of a category or the count of a hint,
\* and a step that lowers the root hintsCount is removeCategory of a
\* category that is in categories.
C19_CountsMonotone ==
    [][/\ \A c \in DOMAIN catHeap \cap DOMAIN catHeap' :
             catHeap'[c].hintsCount >= catHeap[c].hintsCount
       /\ \A h \in DOMAIN hintHeap \cap DOMAIN hintHeap' :
             hintHeap'[h].count >= hintHeap[h].count
       /\ hintsCount' < hintsCount =>
             \E name \in CategoryNames : RemoveCategory(name) /\ Named(name) # {}]_vars

\* C19 witness: a removal lowered the root hintsCount while a category with
\* counted problems stayed.
C19_Witness ==
    /\ episode.phase = "removed"
    /\ hintsCount < episode.peak
    /\ \E c \in Live : catHeap[c].hintsCount = hintsCount /\ hintsCount >= 1

\* The number a string of decimal digits denotes
RECURSIVE DigitsValue(_)
DigitsValue(digits) ==
    IF digits = <<>>
    THEN 0
    ELSE DigitsValue(SubSeq(digits, 1, Len(digits) - 1)) * 10
           + (CHOOSE d \in 0..9 : DigitChars[d + 1] = digits[Len(digits)])

\* string is number written in decimal digits
Denotes(string, number) ==
    /\ \A i \in 1..Len(string) : string[i] \in Range(DigitChars)
    /\ DigitsValue(string) = number

\* string is 'mm:ss' for the two numbers, two digits each
MinutesSeconds(string, mm, ss) ==
    /\ Len(string) = 5
    /\ Denotes(SubSeq(string, 1, 2), mm)
    /\ string[3] = ":"
    /\ Denotes(SubSeq(string, 4, 5), ss)

\* C12 as stated: the scan time string is 'mm:ss' when the scan took less
\* than an hour and 'hh:mm:ss' otherwise, with ss = floor(t/1000) mod 60,
\* mm = floor(t/60000) mod 60 and hh = floor(t/3600000), two digits each.
C12_ScanTimeTwoDigits ==
    scanTime # <<>> =>
        LET ss == (args.scanTime \div 1000) % 60
            mm == (args.scanTime \div 60000) % 60
            hh == args.scanTime \div 3600000
        IN  IF hh = 0
            THEN MinutesSeconds(scanTime, mm, ss)
            ELSE /\ Len(scanTime) = 8
                 /\ Denotes(SubSeq(scanTime, 1, 2), hh)
                 /\ scanTime[3] = ":"
                 /\ MinutesSeconds(SubSeq(scanTime, 4, 8), mm, ss)

\* C12: the scan time string is 'mm:ss' when the scan took less than an hour
\* and 'h..h:mm:ss' otherwise, with ss = floor(t/1000) mod 60,
\* mm = floor(t/60000) mod 60 and hh = floor(t/3600000); minutes and seconds
\* have two digits, hours have two digits below 100 and their plain decimal
\* digits from 100 on.
C12_ScanTimeFormat ==
    scanTime # <<>> =>
        LET ss == (args.scanTime \div 1000) % 60
            mm == (args.scanTime \div 60000) % 60
            hh == args.scanTime \div 3600000
            width == Len(scanTime) - 6
        IN  IF hh = 0
            THEN MinutesSeconds(scanTime, mm, ss)
            ELSE /\ width >= 2
                 /\ width = 2 \/ (hh >= 100 /\ scanTime[1] # "0")
                 /\ Denotes(SubSeq(scanTime, 1, width), hh)
                 /\ scanTime[width + 1] = ":"
                 /\ MinutesSeconds(SubSeq(scanTime, width + 2, width + 6), mm, ss)

\* C12 witness: a scan of 100 hours, 1 minute and 5 seconds was formatted.
C12_Witness ==
    /\ args.scanTime \div 3600000 = 100
    /\ scanTime = <<"1", "0", "0", ":", "0", "1", ":", "0", "5">>

\* The link of the service's entry with the target URL in the place of %URL%
SubstitutedLink(targetUrl) == <<"?">> \o targetUrl \o <<"&">>

\* C20: a HintResult whose base name has an entry in the third party lookup
\* has that entry's link with %URL% replaced by the target URL, and the
\* lookup's entry is as it was loaded.
C20_LinkSubstituted ==
    \A h \in DOMAIN hintHeap :
        BaseName(hintHeap[h].name) \in DOMAIN ThirdPartyServiceConfig =>
            /\ Len(hintHeap[h].thirdPartyInfo) = 1
            /\ hintHeap[h].thirdPartyInfo[1].link = SubstitutedLink(args.url)
            /\ thirdPartyServices = ThirdPartyServiceConfig

====
